---- MODULE Spec2Model ----
(***************************************************************************)
(* Chart geometry and layout of the TimelineGeneration web application:    *)
(* year range (lib/chartUtils), the YearGrid square sizer and the          *)
(* RadialAgeClock arc layout.                                              *)
(*                                                                         *)
(* Numbers.  Years, pixel sizes and counts are JavaScript numbers holding  *)
(* small integers; they are modelled as integers.  Quotients that the code *)
(* keeps as fractions (radii, angles) are modelled as exact rationals      *)
(* [num, den] with den > 0; IEEE-754 rounding of those quotients (relative *)
(* error below 2^-52) is not modelled.  Where the code rounds, floors or   *)
(* compares a product with a decimal constant (0.04, 0.85, 359.9) the      *)
(* model uses the equivalent integer inequality, noted at each place.      *)
(***************************************************************************)
EXTENDS Integers, Sequences, FiniteSets, TLC

VARIABLES
    data,          \* getYearRange: the TimelineData argument
    currentYear,   \* getYearRange: the currentYear argument
    yearRange,     \* getYearRange: the returned [minYear, maxYear], NULL before a call
    gridPerson,    \* YearGrid: the person prop, NULL while no YearGrid exists
    rect,          \* YearGrid: <<width, height>> of the outer element, NULL before mount
    avail,         \* YearGrid: <<availW, availH>> of the last compute that set the size
    squareSize,    \* YearGrid: the squareSize state
    allData,       \* RadialAgeClock: the allData prop (the chart's people)
    person,        \* RadialAgeClock: the person prop, NULL while no clock is shown
    arcs,          \* RadialAgeClock: the arcs of the last render
    arcPaths,      \* RadialAgeClock: per arc, the angles describeArc draws
    tickRange,     \* getTickInterval: the range argument
    tickInterval,  \* getTickInterval: the returned interval, NULL before a call
    minYear,       \* getTicks: the minYear argument
    maxYear,       \* getTicks: the maxYear argument
    interval,      \* getTicks: the interval argument
    ticks,         \* getTicks: <<the returned list>>, NULL before a call
    chartData,     \* TimelineChart: the data prop (page: timelineData, <<>> for null)
    dims,          \* TimelineChart: the dims state <<w, h>>
    chart,         \* TimelineChart: what the last render computed, NULL while unmounted
    lastColors,    \* buildFlatLayout: catColor and ci as the last call left them
                   \* (left) and as the call before it had left them (found)
    timelineData,  \* Home: timelineData, NULL or <<the list>>
    names,         \* Home: the pending names
    appState,      \* Home: "landing", "input", "loading" or "error"
    errorMessage,  \* Home: NULL or the message
    namesHidden,   \* Home: namesHidden
    request,       \* Home: the /api/resolve request awaited, NULL when there is none
    lastResponse,  \* Home: how the last request ended: "ok", "notok", "throw";
                   \* "none" before and while one is awaited
    exitingNames,  \* TimelineChart: exitingNames
    removeTimers,  \* TimelineChart: the names whose removal timer is pending
    closing,       \* PersonModal: closing
    activeViz,     \* PersonModal: activeViz
    transitioning, \* PersonModal: transitioning
    tabTimers,     \* PersonModal: the tabs of the pending handleTabClick timers, oldest first
    eventCache,    \* eventCache: _cache, per name <<events>>, NULL for a name not set
    fetches,       \* PersonModal: the /api/events requests awaited, each with its
                   \* name and the cancelled flag of its effect
    gridEvents,    \* PersonModal: gridEvents
    eventsLoading  \* PersonModal: eventsLoading

rangeVars == <<data, currentYear, yearRange>>

gridVars == <<gridPerson, rect, avail, squareSize>>

arcVars == <<allData, person, arcs, arcPaths>>

intervalVars == <<tickRange, tickInterval>>

tickVars == <<minYear, maxYear, interval, ticks>>

chartVars == <<chartData, dims, chart, lastColors>>

pageVars == <<timelineData, names, appState, errorMessage, namesHidden, request,
              lastResponse, exitingNames, removeTimers>>

modalVars == <<closing, activeViz, transitioning, tabTimers, eventCache, fetches,
               gridEvents, eventsLoading>>

vars == <<data, currentYear, yearRange, gridPerson, rect, avail, squareSize,
          allData, person, arcs, arcPaths,
          tickRange, tickInterval, minYear, maxYear, interval, ticks,
          chartData, dims, chart, lastColors,
          timelineData, names, appState, errorMessage, namesHidden, request,
          lastResponse, exitingNames, removeTimers,
          closing, activeViz, transitioning, tabTimers, eventCache, fetches,
          gridEvents, eventsLoading>>

----------------------------------------------------------------------------
(* types/timeline: PersonData.  death_year: number | null is modelled as a *)
(* sequence of length 0 (null) or 1 (the year).                            *)

NULL == <<>>

Year(y) == <<y>>

\* a ?? b on a nullable year
Coalesce(d, dflt) == IF d = NULL THEN dflt ELSE d[1]

Person(name, birth, death, category) ==
    [name |-> name, birth_year |-> birth, death_year |-> death, category |-> category]

CURRENT_YEAR == 2026

----------------------------------------------------------------------------
(* JavaScript Math helpers *)

MathMin(a, b) == IF a <= b THEN a ELSE b

MathMax(a, b) == IF a >= b THEN a ELSE b

SetMin(S) == CHOOSE x \in S : \A y \in S : x <= y

SetMax(S) == CHOOSE x \in S : \A y \in S : x >= y

\* Math.floor(num / den), den > 0
MathFloorDiv(num, den) == num \div den

\* Math.ceil(num / den), den > 0
MathCeilDiv(num, den) == -((-num) \div den)

\* Math.round(num / den), den > 0: the nearest integer, halves towards +Infinity
MathRound(num, den) == (2 * num + den) \div (2 * den)

----------------------------------------------------------------------------
(* lib/chartUtils: getYearRange *)

\* (mutation: the death years are left out of the pool)
PooledYears_BirthOnly(d, cy) == {d[i].birth_year : i \in 1..Len(d)}

\* data.flatMap(p => [p.birth_year, p.death_year ?? currentYear]), as the set
\* Math.min / Math.max range over
PooledYears(d, cy) ==
    {d[i].birth_year : i \in 1..Len(d)} \cup
    {Coalesce(d[i].death_year, cy) : i \in 1..Len(d)}

\* rawMax - rawMin || 100
RawRangeOr(rawMin, rawMax) == IF rawMax - rawMin # 0 THEN rawMax - rawMin ELSE 100

\* (mutation: the padding has no minimum)
RangePad_NoMinimum(range) == MathRound(range, 25)

\* (mutation: Math.floor in place of Math.round)
RangePad_Floor(range) == MathMax(5, MathFloorDiv(range, 25))

\* Math.max(5, Math.round(range * 0.04)); range * 0.04 = range / 25, and for an
\* integer range the product is never within 0.01 of a half, so the double
\* product rounds as the exact quotient does
RangePad(range) == MathMax(5, MathRound(range, 25))

getYearRange(d, cy) ==
    LET years  == PooledYears(d, cy)
        rawMin == SetMin(years)
        rawMax == SetMax(years)
        range  == RawRangeOr(rawMin, rawMax)
        pad    == RangePad(range)
    IN  <<rawMin - pad, rawMax + pad>>

----------------------------------------------------------------------------
(* Inputs of getYearRange *)

MaxRangeLen == 3

RangeBirths == {-500, 1888, 1889, 1900, 1920}

\* null, a single-year life, a later year, and a year before every modern birth
RangeDeaths(b) == {NULL, Year(b), Year(1955), Year(1850)}

RangePeople ==
    UNION {{Person("p", b, dth, "c") : dth \in RangeDeaths(b)} : b \in RangeBirths}

CurrentYears == {CURRENT_YEAR, 1950}

\* getTickInterval is not called
IntervalIdle == tickRange = NULL /\ tickInterval = NULL

\* getTicks is not called
TickIdle == minYear = NULL /\ maxYear = NULL /\ interval = NULL /\ ticks = NULL

\* the page is not shown
PageIdle ==
    /\ timelineData = NULL /\ names = <<>> /\ appState = "landing"
    /\ errorMessage = NULL /\ namesHidden = FALSE /\ request = NULL
    /\ lastResponse = "none" /\ exitingNames = {} /\ removeTimers = {}

\* no modal is open and nothing was fetched
ModalIdle ==
    /\ closing = FALSE /\ activeViz = "clock" /\ transitioning = FALSE
    /\ tabTimers = <<>> /\ eventCache = [n \in {"a", "b"} |-> NULL] /\ fetches = {}
    /\ gridEvents = <<>> /\ eventsLoading = FALSE

\* no TimelineChart is rendered
ChartIdle ==
    chartData = <<>> /\ dims = <<0, 0>> /\ chart = NULL /\ lastColors = NULL

\* no RadialAgeClock is rendered
ArcIdle == allData = <<>> /\ person = NULL /\ arcs = <<>> /\ arcPaths = <<>>

\* no YearGrid is rendered
GridIdle == gridPerson = NULL /\ rect = NULL /\ avail = NULL /\ squareSize = 0

RangeInit ==
    /\ data = <<>>
    /\ currentYear \in CurrentYears
    /\ yearRange = NULL
    /\ GridIdle
    /\ ArcIdle
    /\ IntervalIdle
    /\ TickIdle
    /\ ChartIdle
    /\ PageIdle /\ ModalIdle

\* the caller appends one more record to the list it will pass
RangeAddPerson ==
    /\ Len(data) < MaxRangeLen
    /\ \E p \in RangePeople : data' = Append(data, p)
    /\ yearRange' = NULL
    /\ UNCHANGED <<currentYear, gridVars, arcVars, intervalVars, tickVars, chartVars, pageVars, modalVars>>

\* getYearRange(data, currentYear); the list must be non-empty
CallGetYearRange ==
    /\ Len(data) > 0
    /\ yearRange = NULL
    /\ yearRange' = getYearRange(data, currentYear)
    /\ UNCHANGED <<data, currentYear, gridVars, arcVars, intervalVars, tickVars, chartVars, pageVars, modalVars>>

RangeNext == RangeAddPerson \/ CallGetYearRange

SpecRange == RangeInit /\ [][RangeNext]_vars

----------------------------------------------------------------------------
(* components/viz/YearGrid: grid geometry and the square sizer *)

EXTENSION == 25

MAX_SQUARES == 100

GAP == 3

CHROME_HEIGHT == 124

\* gridEnd: the last year of the grid
GridEnd(p) ==
    IF p.death_year = NULL
    THEN CURRENT_YEAR
    ELSE MathMin(p.death_year[1] + EXTENSION, CURRENT_YEAR)

\* step = Math.max(1, Math.ceil(totalYears / MAX_SQUARES))
GridStep(p) == MathMax(1, MathCeilDiv(GridEnd(p) - p.birth_year + 1, MAX_SQUARES))

\* years.length: for (y = birth_year; y <= gridEnd; y += step) years.push(y)
YearsLength(p) ==
    IF p.birth_year > GridEnd(p)
    THEN 0
    ELSE (GridEnd(p) - p.birth_year) \div GridStep(p) + 1

\* (mutation: Math.ceil in place of Math.floor)
CandidateSize_Ceil(n, c, availW, availH) ==
    LET r == MathCeilDiv(n, c)
    IN  MathMin(MathCeilDiv(availW - (c - 1) * GAP, c),
                MathCeilDiv(availH - (r - 1) * GAP, r))

\* sz for column count c: Math.floor(Math.min(ws, hs)), which is the smaller of
\* the two floors
CandidateSize(n, c, availW, availH) ==
    LET r == MathCeilDiv(n, c)
    IN  MathMin(MathFloorDiv(availW - (c - 1) * GAP, c),
                MathFloorDiv(availH - (r - 1) * GAP, r))

\* sz < bestSize * 0.85; for integers the double product compares as the exact
\* one does, so this is 100 * sz < 85 * bestSize
BelowThreshold(sz, bestSize) == 100 * sz < 85 * bestSize

\* the loop for (c = ...; c <= n; c++) from column count c on, bestSize so far
RECURSIVE ScanColumns(_, _, _, _, _)
ScanColumns(n, availW, availH, c, bestSize) ==
    IF c > n
    THEN bestSize
    ELSE LET sz   == CandidateSize(n, c, availW, availH)
             best == IF sz > bestSize THEN sz ELSE bestSize
         IN  IF BelowThreshold(sz, best)
             THEN best
             ELSE ScanColumns(n, availW, availH, c + 1, best)

\* (mutation: the size is not capped at 56)
ComputedSize_NoCap(n, availW, availH) ==
    MathMax(12, ScanColumns(n, availW, availH, 3, 12))

\* the value handed to setSquareSize
ComputedSize(n, availW, availH) ==
    MathMax(12, MathMin(ScanColumns(n, availW, availH, 3, 12), 56))

\* compute(): the rect is read; a zero width or height returns early and
\* leaves the state as it was
Compute(r) ==
    IF r[1] = 0 \/ r[2] = 0
    THEN UNCHANGED <<avail, squareSize>>
    ELSE LET availW == r[1]
             availH == MathMax(60, r[2] - CHROME_HEIGHT)
         IN  /\ avail' = <<availW, availH>>
             /\ squareSize' = ComputedSize(YearsLength(gridPerson), availW, availH)

----------------------------------------------------------------------------
(* Inputs of YearGrid: the person shown and the sizes of the outer element *)

MaxGridSpan == 99

MaxWSteps == 40

MaxHSteps == 15

RectStep == 10

\* living people of every age up to MaxGridSpan, one not yet born, and two
\* dead people (one whose grid needs a step above 1)
GridPeople ==
    {Person("p", b, NULL, "c") : b \in (CURRENT_YEAR - MaxGridSpan)..(CURRENT_YEAR + 1)}
    \cup {Person("p", 1800, Year(1880), "c"), Person("p", 1900, Year(1955), "c")}

RectWidths == {RectStep * i : i \in 1..MaxWSteps}

\* the smallest heights fall below CHROME_HEIGHT + 60
RectHeights == {CHROME_HEIGHT + 50 + RectStep * j : j \in 0..MaxHSteps}

HIDDEN == <<0, 0>>

Rects == {HIDDEN} \cup (RectWidths \X RectHeights)

\* the sizes a ResizeObserver callback may report after size r: one step in
\* width or in height, hidden, or shown again at the smallest size
NextRects(r) ==
    IF r = HIDDEN
    THEN {<<RectStep, CHROME_HEIGHT + 50>>}
    ELSE {HIDDEN} \cup
         {q \in RectWidths \X RectHeights :
             \/ q[2] = r[2] /\ (q[1] = r[1] + RectStep \/ q[1] = r[1] - RectStep)
             \/ q[1] = r[1] /\ (q[2] = r[2] + RectStep \/ q[2] = r[2] - RectStep)}

RangeIdle == data = <<>> /\ currentYear = CURRENT_YEAR /\ yearRange = NULL

\* useState(16), before the layout effect has run
GridInit ==
    /\ gridPerson \in GridPeople
    /\ rect = NULL
    /\ avail = NULL
    /\ squareSize = 16
    /\ RangeIdle
    /\ ArcIdle
    /\ IntervalIdle
    /\ TickIdle
    /\ ChartIdle
    /\ PageIdle /\ ModalIdle

\* useLayoutEffect: compute() at mount
GridMount ==
    /\ rect = NULL
    /\ \E r \in Rects : rect' = r /\ Compute(r)
    /\ UNCHANGED <<gridPerson, rangeVars, arcVars, intervalVars, tickVars, chartVars, pageVars, modalVars>>

\* the ResizeObserver callback: compute() at the new size
GridResize ==
    /\ rect # NULL
    /\ \E r \in NextRects(rect) : rect' = r /\ Compute(r)
    /\ UNCHANGED <<gridPerson, rangeVars, arcVars, intervalVars, tickVars, chartVars, pageVars, modalVars>>

GridNext == GridMount \/ GridResize

SpecGrid == GridInit /\ [][GridNext]_vars

----------------------------------------------------------------------------
(* Exact rationals num / den, den > 0, for the quotients the code computes *)

Rat(n, d) == [num |-> n, den |-> d]

RatLess(a, b) == a.num * b.den < b.num * a.den

RatLeq(a, b) == a.num * b.den <= b.num * a.den

RatEq(a, b) == a.num * b.den = b.num * a.den

RatAdd(a, b) == Rat(a.num * b.den + b.num * a.den, a.den * b.den)

RatSub(a, b) == Rat(a.num * b.den - b.num * a.den, a.den * b.den)

RatMin(a, b) == IF RatLeq(a, b) THEN a ELSE b

\* Array.prototype.slice(0, k)
SliceTo(s, k) == SubSeq(s, 1, MathMin(k, Len(s)))

----------------------------------------------------------------------------
(* components/viz/RadialAgeClock: the arc layout *)

MIN_R == 28

MAX_R == 106

\* BASE_R = (MIN_R + MAX_R) / 2
BASE_R == Rat(MIN_R + MAX_R, 2)

\* personEnd, otherEnd: death_year ?? CURRENT_YEAR
EndOf(p) == Coalesce(p.death_year, CURRENT_YEAR)

\* (mutation: the lifespan counts both end years)
Lifespan_Inclusive(focal) == MathMax(EndOf(focal) - focal.birth_year + 1, 1)

\* lifespan = Math.max(personEnd - person.birth_year, 1)
Lifespan(focal) == MathMax(EndOf(focal) - focal.birth_year, 1)

\* yearToDeg(year) = ((year - person.birth_year) / lifespan) * 360
yearToDeg(focal, year) == Rat((year - focal.birth_year) * 360, Lifespan(focal))

\* (mutation: the end of the focal life is left out of the test)
OverlapsFocal_OtherEndOnly(focal, p) ==
    EndOf(p) > MathMax(p.birth_year, focal.birth_year)

\* (mutation: an interval that only touches the focal life counts as overlap)
OverlapsFocal_Touching(focal, p) ==
    MathMin(EndOf(p), EndOf(focal)) >= MathMax(p.birth_year, focal.birth_year)

\* the filter predicate: Math.min(otherEnd, personEnd) > Math.max(births)
OverlapsFocal(focal, p) ==
    MathMin(EndOf(p), EndOf(focal)) > MathMax(p.birth_year, focal.birth_year)

\* shareA / shareB of the first sort
SharedYears(focal, p) ==
    MathMin(EndOf(p), EndOf(focal)) - MathMax(p.birth_year, focal.birth_year)

\* (mutation: shareA - shareB, least overlap first)
BySharedDesc_Ascending(focal, a, b) == SharedYears(focal, a) - SharedYears(focal, b)

\* the comparator of the first sort: shareB - shareA
BySharedDesc(focal, a, b) == SharedYears(focal, b) - SharedYears(focal, a)

\* (mutation: gapB - gapA, oldest first)
ByAgeGapAsc_Descending(focal, a, b) ==
    (focal.birth_year - b.birth_year) - (focal.birth_year - a.birth_year)

\* the comparator of the second sort: gapA - gapB
ByAgeGapAsc(focal, a, b) ==
    (focal.birth_year - a.birth_year) - (focal.birth_year - b.birth_year)

\* Array.prototype.sort is stable: with a consistent comparator the result is
\* the one of inserting the elements in input order, each after every element
\* the comparator does not put it before.
\* x inserted into a list sorted by BySharedDesc
InsertByShared(focal, sorted, x) ==
    LET k == Cardinality({i \in 1..Len(sorted) : ~(BySharedDesc(focal, x, sorted[i]) < 0)})
    IN  SubSeq(sorted, 1, k) \o <<x>> \o SubSeq(sorted, k + 1, Len(sorted))

\* .sort((a, b) => shareB - shareA)
SortByShared(focal, s) ==
    LET F[n \in 0..Len(s)] ==
            IF n = 0 THEN <<>> ELSE InsertByShared(focal, F[n - 1], s[n])
    IN  F[Len(s)]

\* x inserted into a list sorted by ByAgeGapAsc
InsertByAgeGap(focal, sorted, x) ==
    LET k == Cardinality({i \in 1..Len(sorted) : ~(ByAgeGapAsc(focal, x, sorted[i]) < 0)})
    IN  SubSeq(sorted, 1, k) \o <<x>> \o SubSeq(sorted, k + 1, Len(sorted))

\* .sort((a, b) => gapA - gapB)
SortByAgeGap(focal, s) ==
    LET F[n \in 0..Len(s)] ==
            IF n = 0 THEN <<>> ELSE InsertByAgeGap(focal, F[n - 1], s[n])
    IN  F[Len(s)]

\* others = allData.filter(p => p.name !== person.name)
Others(focal, all) == SelectSeq(all, LAMBDA p : p.name # focal.name)

\* overlapping: filter, sort by shared years, slice(0, 10), sort by age gap
Overlapping(focal, all) ==
    LET kept     == SelectSeq(Others(focal, all), LAMBDA p : OverlapsFocal(focal, p))
        byShared == SortByShared(focal, kept)
        top      == SliceTo(byShared, 10)
    IN  SortByAgeGap(focal, top)

\* (mutation: the index is divided by N in place of N - 1)
assignedRadius_OverN(i, N) ==
    IF N <= 1 THEN BASE_R ELSE Rat(MIN_R * N + i * (MAX_R - MIN_R), N)

\* (mutation: a single arc is put on the innermost ring)
assignedRadius_SingleInner(i, N) ==
    IF N <= 1 THEN Rat(MIN_R, 1) ELSE Rat(MIN_R * (N - 1) + i * (MAX_R - MIN_R), N - 1)

\* assignedRadius(i), i 0-based: MIN_R + (i / (N - 1)) * (MAX_R - MIN_R)
assignedRadius(i, N) ==
    IF N <= 1 THEN BASE_R ELSE Rat(MIN_R * (N - 1) + i * (MAX_R - MIN_R), N - 1)

\* (mutation: a death in the year the focal life ends counts as during it)
ArcEntry_DiedInclusive(focal, p, i, N) ==
    LET otherEnd     == EndOf(p)
        overlapStart == MathMax(p.birth_year, focal.birth_year)
        overlapEnd   == MathMin(otherEnd, EndOf(focal))
    IN  [key          |-> p.name,
         p            |-> p,
         r            |-> assignedRadius(i, N),
         startDeg     |-> yearToDeg(focal, overlapStart),
         endDeg       |-> yearToDeg(focal, overlapEnd),
         bornDuring   |-> p.birth_year > focal.birth_year,
         diedDuring   |-> p.death_year # NULL /\ p.death_year[1] <= EndOf(focal),
         ageGap       |-> focal.birth_year - p.birth_year,
         overlapYears |-> overlapEnd - overlapStart]

\* one ArcEntry (color and len, a multiple of pi, are left out)
ArcEntry(focal, p, i, N) ==
    LET otherEnd     == EndOf(p)
        overlapStart == MathMax(p.birth_year, focal.birth_year)
        overlapEnd   == MathMin(otherEnd, EndOf(focal))
    IN  [key          |-> p.name,
         p            |-> p,
         r            |-> assignedRadius(i, N),
         startDeg     |-> yearToDeg(focal, overlapStart),
         endDeg       |-> yearToDeg(focal, overlapEnd),
         bornDuring   |-> p.birth_year > focal.birth_year,
         diedDuring   |-> p.death_year # NULL /\ p.death_year[1] < EndOf(focal),
         ageGap       |-> focal.birth_year - p.birth_year,
         overlapYears |-> overlapEnd - overlapStart]

\* arcs = overlapping.map((p, i) => ...)
Arcs(focal, all) ==
    LET ov == Overlapping(focal, all)
    IN  [k \in 1..Len(ov) |-> ArcEntry(focal, ov[k], k - 1, Len(ov))]

\* (mutation: the end angle is drawn as given)
describeArcEnd_Unclamped(startDeg, endDeg) == endDeg

\* describeArc: end = Math.min(endDeg, startDeg + 359.9)
describeArcEnd(startDeg, endDeg) == RatMin(endDeg, RatAdd(startDeg, Rat(3599, 10)))

\* describeArc(arc.r, arc.startDeg, arc.endDeg) of every arc: the angles of the
\* path and its large-arc flag (end - startDeg > 180)
ArcPaths(as) ==
    [k \in 1..Len(as) |->
        LET end == describeArcEnd(as[k].startDeg, as[k].endDeg)
        IN  [start |-> as[k].startDeg,
             end   |-> end,
             large |-> RatLess(Rat(180, 1), RatSub(end, as[k].startDeg))]]

----------------------------------------------------------------------------
(* Inputs of RadialAgeClock: the chart's people and the person clicked *)

MaxPeople == 12

\* lives of the chart's people: the focal life of the specification's example
\* and its older contemporary, a living person born the year the second died,
\* a person born the year the first died, and a record with
\* death_year < birth_year
ArcLives ==
    << <<1900, Year(1980)>>, <<1850, Year(1920)>>, <<1920, NULL>>,
       <<1980, Year(2000)>>, <<1950, Year(1940)>> >>

\* the index in ArcLives of the life of the last person of the chart
LastLife(all) ==
    IF all = <<>> THEN 1
    ELSE CHOOSE j \in 1..Len(ArcLives) :
            /\ ArcLives[j][1] = all[Len(all)].birth_year
            /\ ArcLives[j][2] = all[Len(all)].death_year

\* a render of the clock for the person shown
Render(focal, all) ==
    IF focal = NULL
    THEN arcs' = <<>> /\ arcPaths' = <<>>
    ELSE /\ arcs' = Arcs(focal, all)
         /\ arcPaths' = ArcPaths(Arcs(focal, all))

ArcInit == ArcIdle /\ RangeIdle /\ GridIdle /\ IntervalIdle /\ TickIdle /\ ChartIdle /\ PageIdle /\ ModalIdle

\* the chart gains a person under a new name (names are the positions of the
\* chart); people are added in the order of ArcLives.  The layout sorts the
\* people it keeps, so the chart's order decides only the order of equal keys.
ArcAddPerson ==
    /\ Len(allData) < MaxPeople
    /\ \E j \in LastLife(allData)..Len(ArcLives) :
          allData' = Append(allData,
                            Person(Len(allData) + 1, ArcLives[j][1], ArcLives[j][2], "c"))
    /\ UNCHANGED person
    /\ Render(person, allData')
    /\ UNCHANGED <<rangeVars, gridVars, intervalVars, tickVars, chartVars, pageVars, modalVars>>

\* a bar is clicked and the modal shows the clock of that person
ArcShowClock ==
    /\ person = NULL
    /\ \E i \in 1..Len(allData) :
          /\ person' = allData[i]
          /\ Render(allData[i], allData)
    /\ UNCHANGED <<allData, rangeVars, gridVars, intervalVars, tickVars, chartVars, pageVars, modalVars>>

\* the modal is closed
ArcCloseClock ==
    /\ person # NULL
    /\ person' = NULL
    /\ Render(NULL, allData)
    /\ UNCHANGED <<allData, rangeVars, gridVars, intervalVars, tickVars, chartVars, pageVars, modalVars>>

ArcNext == ArcAddPerson \/ ArcShowClock \/ ArcCloseClock

SpecArc == ArcInit /\ [][ArcNext]_vars

----------------------------------------------------------------------------
(* lib/chartUtils: getTickInterval and getTicks *)

\* (mutation: the smallest interval is 25)
getTickInterval_NoTen(r) ==
    IF r > 4000 THEN 1000
    ELSE IF r > 2000 THEN 500
    ELSE IF r > 800 THEN 200
    ELSE IF r > 300 THEN 100
    ELSE IF r > 120 THEN 50
    ELSE 25

\* (mutation: a range equal to a threshold takes the larger interval)
getTickInterval_Inclusive(r) ==
    IF r >= 4000 THEN 1000
    ELSE IF r >= 2000 THEN 500
    ELSE IF r >= 800 THEN 200
    ELSE IF r >= 300 THEN 100
    ELSE IF r >= 120 THEN 50
    ELSE IF r >= 50 THEN 25
    ELSE 10

getTickInterval(r) ==
    IF r > 4000 THEN 1000
    ELSE IF r > 2000 THEN 500
    ELSE IF r > 800 THEN 200
    ELSE IF r > 300 THEN 100
    ELSE IF r > 120 THEN 50
    ELSE IF r > 50 THEN 25
    ELSE 10

\* (mutation: Math.floor in place of Math.ceil)
TickStart_Floor(lo, step) == MathFloorDiv(lo, step) * step

\* start = Math.ceil(minYear / interval) * interval, interval > 0
TickStart(lo, step) == MathCeilDiv(lo, step) * step

\* for (let y = start; y <= maxYear; y += interval) ticks.push(y)
RECURSIVE TickLoop(_, _, _)
TickLoop(y, hi, step) ==
    IF y <= hi THEN <<y>> \o TickLoop(y + step, hi, step) ELSE <<>>

getTicks(lo, hi, step) == TickLoop(TickStart(lo, step), hi, step)

----------------------------------------------------------------------------
(* Inputs of getTickInterval: every integer range from 0 to MaxSpan *)

MaxSpan == 4100

IntervalInit ==
    /\ tickRange \in 0..MaxSpan
    /\ tickInterval = NULL
    /\ RangeIdle /\ GridIdle /\ ArcIdle /\ TickIdle /\ ChartIdle /\ PageIdle /\ ModalIdle

CallGetTickInterval ==
    /\ tickInterval = NULL
    /\ tickInterval' = <<getTickInterval(tickRange)>>
    /\ UNCHANGED <<tickRange, rangeVars, gridVars, arcVars, tickVars, chartVars, pageVars, modalVars>>

IntervalNext == CallGetTickInterval

SpecInterval == IntervalInit /\ [][IntervalNext]_vars

----------------------------------------------------------------------------
(* Inputs of getTicks: ranges around year 0, of every width up to             *)
(* MaxTickWidth and with maxYear below minYear, and the range of the          *)
(* specification's example; positive intervals, as getTickInterval returns    *)

MaxTickYear == 60

MaxTickWidth == 80

TickRanges ==
    {<<lo, lo + w>> : lo \in (-MaxTickYear)..MaxTickYear, w \in (-2)..MaxTickWidth}
    \cup {<<1895, 2031>>}

TickSteps == {7, 10, 25, 50}

TickInit ==
    /\ \E r \in TickRanges : minYear = r[1] /\ maxYear = r[2]
    /\ interval \in TickSteps
    /\ ticks = NULL
    /\ RangeIdle /\ GridIdle /\ ArcIdle /\ IntervalIdle /\ ChartIdle /\ PageIdle /\ ModalIdle

CallGetTicks ==
    /\ ticks = NULL
    /\ ticks' = <<getTicks(minYear, maxYear, interval)>>
    /\ UNCHANGED <<minYear, maxYear, interval, rangeVars, gridVars, arcVars, intervalVars, chartVars, pageVars, modalVars>>

TickNext == CallGetTicks

SpecTicks == TickInit /\ [][TickNext]_vars

----------------------------------------------------------------------------
(* components/TimelineChart: row layout, colors and the year-to-pixel map.   *)
(* Pixel values that carry the factor 0.62 or a quotient of years are exact  *)
(* rationals.  A category (a string in the code) is modelled by a number.    *)

PAD_BOTTOM == 60

PAD_LEFT == 48

PAD_RIGHT == 160

BAR_H == 18

BAR_GAP == 14

RESERVED_TOP == 120

CAT_COLORS ==
    << "#7a6e5f", "#5f6e6a", "#6e5f7a", "#7a6a5f",
       "#5f7a6e", "#6a6e5f", "#7a5f6a", "#5f6a7a" >>

\* (mutation: the gap below the last row is not taken off)
computeContentHeight_GapKept(d) == Len(d) * (BAR_H + BAR_GAP) + PAD_BOTTOM

computeContentHeight(d) == Len(d) * (BAR_H + BAR_GAP) - BAR_GAP + PAD_BOTTOM

\* topOffset = dims.h > 0
\*     ? RESERVED_TOP + Math.max(0, (dims.h - RESERVED_TOP - contentH) * 0.62)
\*     : RESERVED_TOP;  x * 0.62 = 31 x / 50
TopOffset(h, contentH) ==
    IF h > 0
    THEN RatAdd(Rat(RESERVED_TOP, 1),
                Rat(MathMax(0, (h - RESERVED_TOP - contentH) * 31), 50))
    ELSE Rat(RESERVED_TOP, 1)

\* (mutation: the map and the counter of the last call are used again)
ColorsAtEntry_Kept(last) == IF last = NULL THEN [map |-> <<>>, ci |-> 0] ELSE last.left

\* catColor = new Map(); let ci = 0: every call starts from an empty map,
\* whatever the last call left
ColorsAtEntry(last) == [map |-> <<>>, ci |-> 0]

\* (mutation: the last palette entry is never used)
PaletteEntry_Seven(ci) == CAT_COLORS[(ci % (Len(CAT_COLORS) - 1)) + 1]

\* CAT_COLORS[ci % CAT_COLORS.length]
PaletteEntry(ci) == CAT_COLORS[(ci % Len(CAT_COLORS)) + 1]

\* if (!catColor.has(p.category)) { catColor.set(p.category, ...); ci++; }
AssignColor(st, cat) ==
    IF cat \in DOMAIN st.map
    THEN st
    ELSE [map |-> (cat :> PaletteEntry(st.ci)) @@ st.map, ci |-> st.ci + 1]

\* for (const p of data) ...
AssignColors(d, st0) ==
    LET F[n \in 0..Len(d)] ==
            IF n = 0 THEN st0 ELSE AssignColor(F[n - 1], d[n].category)
    IN  F[Len(d)]

\* (mutation: b.birth_year - a.birth_year, latest birth first)
ByBirthAsc_Descending(a, b) == b.birth_year - a.birth_year

\* the comparator of the sort: a.birth_year - b.birth_year
ByBirthAsc(a, b) == a.birth_year - b.birth_year

\* x inserted into a list sorted by ByBirthAsc (the sort is stable)
InsertByBirth(sorted, x) ==
    LET k == Cardinality({i \in 1..Len(sorted) : ~(ByBirthAsc(x, sorted[i]) < 0)})
    IN  SubSeq(sorted, 1, k) \o <<x>> \o SubSeq(sorted, k + 1, Len(sorted))

\* .sort((a, b) => a.birth_year - b.birth_year)
SortByBirth(s) ==
    LET F[n \in 0..Len(s)] ==
            IF n = 0 THEN <<>> ELSE InsertByBirth(F[n - 1], s[n])
    IN  F[Len(s)]

\* the array passed in, after the call: [...data] sorts a copy
DataAfterLayout(d) == d

\* (mutation: rows are BAR_H apart, without the gap)
RowBarY_NoGap(topOffset, i) == RatAdd(topOffset, Rat(i * BAR_H, 1))

\* barY: topOffset + i * (BAR_H + BAR_GAP), i 0-based
RowBarY(topOffset, i) == RatAdd(topOffset, Rat(i * (BAR_H + BAR_GAP), 1))

\* catColor.get(person.category) ?? CAT_COLORS[0]
RowColor(map, cat) == IF cat \in DOMAIN map THEN map[cat] ELSE CAT_COLORS[1]

\* buildFlatLayout(data, topOffset): the rows, with the locals catColor and ci
\* as the call leaves them and the array passed in as it is after the call
buildFlatLayout(d, topOffset, last) ==
    LET st     == AssignColors(d, ColorsAtEntry(last))
        sorted == SortByBirth(d)
    IN  [rows   |-> [k \in 1..Len(sorted) |->
                        [person |-> sorted[k],
                         barY   |-> RowBarY(topOffset, k - 1),
                         color  |-> RowColor(st.map, sorted[k].category)]],
         colors |-> st,
         data   |-> DataAfterLayout(d)]

\* (mutation: the width is not clamped at 0)
ChartW_Unclamped(w) == w - PAD_LEFT - PAD_RIGHT

\* chartW = Math.max(0, dims.w - PAD_LEFT - PAD_RIGHT)
ChartW(w) == MathMax(0, w - PAD_LEFT - PAD_RIGHT)

\* xs(year) = PAD_LEFT + ((year - minYear) / (maxYear - minYear)) * chartW
xs(lo, hi, chartW, year) == Rat(PAD_LEFT * (hi - lo) + (year - lo) * chartW, hi - lo)

\* (mutation: the bar width is not clamped at 2)
Bar_Unclamped(lo, hi, chartW, p) ==
    LET bx        == xs(lo, hi, chartW, p.birth_year)
        solidEndX == xs(lo, hi, chartW, Coalesce(p.death_year, CURRENT_YEAR))
    IN  [bx |-> bx, solidEndX |-> solidEndX, barW |-> RatSub(solidEndX, bx)]

\* one bar: bx, solidEndX and barW = Math.max(2, solidEndX - bx)
Bar(lo, hi, chartW, p) ==
    LET bx        == xs(lo, hi, chartW, p.birth_year)
        solidEndX == xs(lo, hi, chartW, Coalesce(p.death_year, CURRENT_YEAR))
        w         == RatSub(solidEndX, bx)
    IN  [bx |-> bx, solidEndX |-> solidEndX,
         barW |-> IF RatLeq(Rat(2, 1), w) THEN w ELSE Rat(2, 1)]

\* one render of TimelineChart for the data and dims given; nothing is drawn
\* while dims.w is 0
ChartRender(d, dm, last) ==
    LET contentH  == computeContentHeight(d)
        topOffset == TopOffset(dm[2], contentH)
        layout    == buildFlatLayout(d, topOffset, last)
        yr        == getYearRange(d, CURRENT_YEAR)
        chartW    == ChartW(dm[1])
        step      == getTickInterval(yr[2] - yr[1])
        tks       == getTicks(yr[1], yr[2], step)
    IN  [given     |-> d,
         after     |-> layout.data,
         colors    |-> layout.colors,
         contentH  |-> contentH,
         topOffset |-> topOffset,
         rows      |-> layout.rows,
         minYear   |-> yr[1],
         maxYear   |-> yr[2],
         chartW    |-> chartW,
         interval  |-> step,
         ticks     |-> tks,
         axisY     |-> RatSub(RatAdd(topOffset, Rat(contentH, 1)), Rat(PAD_BOTTOM, 1)),
         gridX     |-> IF dm[1] = 0 THEN <<>>
                       ELSE [k \in 1..Len(tks) |-> xs(yr[1], yr[2], chartW, tks[k])],
         bars      |-> IF dm[1] = 0 THEN <<>>
                       ELSE [k \in 1..Len(layout.rows) |->
                                Bar(yr[1], yr[2], chartW, layout.rows[k].person)]]

----------------------------------------------------------------------------
(* Inputs of TimelineChart: the people of the page and the size of the       *)
(* chart's element                                                           *)

MaxRows == 9

\* the life of the people of a category: a single-year life, a life before it,
\* a living person, a record with death_year < birth_year
ChartLives ==
    << <<1900, Year(1900)>>, <<1850, Year(1920)>>, <<1920, NULL>>, <<1950, Year(1940)>> >>

ChartPerson(name, c) ==
    LET life == ChartLives[((c - 1) % Len(ChartLives)) + 1]
    IN  Person(name, life[1], life[2], c)

\* the category of the next person: the one of the first person, or the first
\* category not on the chart yet
NextCategories(d) ==
    IF d = <<>> THEN {1, 2}
    ELSE {d[1].category,
          CHOOSE c \in 1..(Len(d) + 1) :
              /\ \A i \in 1..Len(d) : d[i].category # c
              /\ \A b \in 1..(c - 1) : \E i \in 1..Len(d) : d[i].category = b}

\* clientWidth x clientHeight of the chart's element
ChartDims == {<<0, 0>>, <<200, 300>>, <<1000, 700>>, <<1208, 150>>}

\* TimelineChart renders: the values of the render and what buildFlatLayout
\* left behind
RenderChart(d, dm) ==
    LET r == ChartRender(d, dm, lastColors)
    IN  /\ chartData' = r.after
        /\ lastColors' = [left  |-> r.colors,
                          found |-> IF lastColors = NULL THEN NULL ELSE lastColors.left]
        /\ chart' = [f \in DOMAIN r \ {"after", "colors"} |-> r[f]]

ChartInit == ChartIdle /\ RangeIdle /\ GridIdle /\ ArcIdle /\ IntervalIdle /\ TickIdle /\ PageIdle /\ ModalIdle

\* timelineData gains a person under a new name (names are the positions of
\* the list); the chart is mounted with dims {w: 0, h: 0} when it was empty
ChartGenerate ==
    /\ Len(chartData) < MaxRows
    /\ \E c \in NextCategories(chartData) :
          LET dm == IF chartData = <<>> THEN <<0, 0>> ELSE dims
          IN  /\ dims' = dm
              /\ RenderChart(Append(chartData, ChartPerson(Len(chartData) + 1, c)), dm)
    /\ UNCHANGED <<rangeVars, gridVars, arcVars, intervalVars, tickVars, pageVars, modalVars>>

\* the ResizeObserver callback: setDims({ w: clientWidth, h: clientHeight })
ChartResize ==
    /\ chartData # <<>>
    /\ \E dm \in ChartDims \ {dims} :
          /\ dims' = dm
          /\ RenderChart(chartData, dm)
    /\ UNCHANGED <<rangeVars, gridVars, arcVars, intervalVars, tickVars, pageVars, modalVars>>

\* handleClearChart: timelineData = null, the chart is unmounted
ChartClear ==
    /\ chartData # <<>>
    /\ chartData' = <<>>
    /\ dims' = <<0, 0>>
    /\ chart' = NULL
    /\ UNCHANGED <<lastColors, rangeVars, gridVars, arcVars, intervalVars, tickVars, pageVars, modalVars>>

ChartNext == ChartGenerate \/ ChartResize \/ ChartClear

SpecChart == ChartInit /\ [][ChartNext]_vars

----------------------------------------------------------------------------
(* The axis of a chart: getYearRange, getTickInterval and getTicks in a row,  *)
(* as TimelineChart and AgeGapFloat call them.  The range depends on the     *)
(* list only through its least and greatest year, so the lists tried hold    *)
(* one person, born within MaxAxisYear of year 0, whose life has every       *)
(* length up to MaxAxisLife or a length that puts the padded span next to    *)
(* one of the thresholds 800, 2000 and 4000.                                 *)

MaxAxisYear == 100

MaxAxisLife == 290

AxisLives == (0..MaxAxisLife) \cup (735..745) \cup (1845..1860) \cup (3695..3710)

AxisInit ==
    /\ \E b \in (-MaxAxisYear)..MaxAxisYear : \E len \in AxisLives :
          data = <<Person("p", b, Year(b + len), "c")>>
    /\ currentYear = CURRENT_YEAR
    /\ yearRange = NULL
    /\ IntervalIdle /\ TickIdle /\ GridIdle /\ ArcIdle /\ ChartIdle /\ PageIdle /\ ModalIdle

\* [minYear, maxYear] = getYearRange(data, CURRENT_YEAR);
\* interval = getTickInterval(maxYear - minYear);
\* ticks = getTicks(minYear, maxYear, interval)
PlanAxis ==
    /\ yearRange = NULL
    /\ LET yr   == getYearRange(data, currentYear)
           step == getTickInterval(yr[2] - yr[1])
       IN  /\ yearRange' = yr
           /\ tickRange' = yr[2] - yr[1]
           /\ tickInterval' = <<step>>
           /\ minYear' = yr[1]
           /\ maxYear' = yr[2]
           /\ interval' = step
           /\ ticks' = <<getTicks(yr[1], yr[2], step)>>
    /\ UNCHANGED <<data, currentYear, gridVars, arcVars, chartVars, pageVars, modalVars>>

AxisNext == PlanAxis

SpecAxis == AxisInit /\ [][AxisNext]_vars

----------------------------------------------------------------------------
(* app/page: Home, the page.  timelineData is NULL or <<list>>, so that null *)
(* and an empty list differ.  The skeleton and the fade of the landing       *)
(* screen (showSkeleton, skeletonExiting, landingVisible, appVisible) only   *)
(* style the page and are left out; localStorage is empty at the start.      *)

\* handleAddName: prev.includes(name) ? prev : [...prev, name]
AddName(prev, n) ==
    IF \E i \in 1..Len(prev) : prev[i] = n THEN prev ELSE Append(prev, n)

\* handleRemoveName: prev.filter(n => n !== name)
RemoveName(prev, n) == SelectSeq(prev, LAMBDA x : x # n)

\* (mutation: the list left is kept when it is empty)
RemovePersonFromChart_KeepEmpty(prev, n) ==
    IF prev = NULL THEN NULL
    ELSE <<SelectSeq(prev[1], LAMBDA p : p.name # n)>>

\* handleRemovePersonFromChart, the updater of setTimelineData
RemovePersonFromChart(prev, n) ==
    IF prev = NULL
    THEN NULL
    ELSE LET next == SelectSeq(prev[1], LAMBDA p : p.name # n)
         IN  IF Len(next) = 0 THEN NULL ELSE <<next>>

\* (mutation: the people returned are appended without the name test)
MergeTimelineData_NoFilter(prev, d) ==
    IF prev = NULL THEN <<d>> ELSE <<prev[1] \o d>>

\* handleGenerate, the updater of setTimelineData: json.data when there is no
\* chart, else [...prev, ...fresh]
MergeTimelineData(prev, d) ==
    IF prev = NULL
    THEN <<d>>
    ELSE LET existingNames == {prev[1][i].name : i \in 1..Len(prev[1])}
             fresh         == SelectSeq(d, LAMBDA p : p.name \notin existingNames)
         IN  <<prev[1] \o fresh>>

\* (mutation: json.error is shown as it is)
ErrorOf_Raw(err) == err

\* json.error ?? "Something went wrong."
ErrorOf(err) == IF err = NULL THEN <<"Something went wrong.">> ELSE err

\* (mutation: a request is sent for an empty list of names)
SendsRequest_Always(ns) == TRUE

\* handleGenerate: if (names.length === 0) return
SendsRequest(ns) == Len(ns) # 0

----------------------------------------------------------------------------
(* Inputs of the page: names typed, people the resolve route returns and    *)
(* its failures                                                              *)

MaxResponse == 2

\* the remove timers that may be pending together
MaxTimers == 1

PendingNames == {"a", "b"}

\* the people /api/resolve can return: "a" under two categories, "b" with
\* death_year < birth_year, "c" living
PagePeople ==
    {Person("a", 1900, Year(1980), 1), Person("a", 1900, Year(1980), 2),
     Person("b", 1950, Year(1940), 1), Person("c", 1920, NULL, 3)}

RECURSIVE SeqsUpTo(_, _)
\* the sequences over S of length at most k
SeqsUpTo(S, k) ==
    IF k = 0 THEN {<<>>}
    ELSE LET shorter == SeqsUpTo(S, k - 1)
         IN  shorter \cup {Append(q, x) : q \in shorter, x \in S}

\* json.data of an OK response: route.ts answers 422 for an empty list.  The
\* responses are taken with pairwise distinct names; the route does not check
\* this.
Responses ==
    {d \in SeqsUpTo(PagePeople, MaxResponse) :
        /\ Len(d) >= 1
        /\ \A i, j \in 1..Len(d) : i # j => d[i].name # d[j].name}

\* json.error of a response that is not OK, as <<message>>; NULL when the body
\* has no error
ResponseErrors == {NULL, <<"No valid people found. Check your input and try again.">>}

\* clientWidth x clientHeight of the page's chart
PageDims == <<1000, 700>>

\* {timelineData && <TimelineChart data={timelineData} />}: an empty list is
\* truthy, the chart would be rendered for it.  The layout is computed again
\* when the data changes (useMemo).  Of the colours only what the call left is
\* recorded here, and nothing once the chart is unmounted.
ShowChart(td) ==
    IF td = NULL
    THEN chartData' = <<>> /\ dims' = <<0, 0>> /\ chart' = NULL /\ lastColors' = NULL
    ELSE IF td[1] = <<>>
    THEN /\ chartData' = <<>> /\ dims' = PageDims
         /\ chart' = [given |-> <<>>]
         /\ UNCHANGED lastColors
    ELSE IF chart # NULL /\ chart.given = td[1]
    THEN UNCHANGED chartVars
    ELSE LET r == ChartRender(td[1], PageDims, lastColors)
         IN  /\ dims' = PageDims
             /\ chartData' = r.after
             /\ lastColors' = [left |-> r.colors, found |-> NULL]
             /\ chart' = [f \in DOMAIN r \ {"after", "colors"} |-> r[f]]

\* {selectedPerson && <PersonModal person={selectedPerson}
\*                                 allData={timelineData ?? []} />}
ShowModal(sel, td) ==
    /\ person' = sel
    /\ allData' = IF sel = NULL \/ td = NULL THEN <<>> ELSE td[1]
    /\ Render(sel, IF sel = NULL \/ td = NULL THEN <<>> ELSE td[1])

\* the page is rendered with the new state
ShowPage(td, sel) ==
    /\ ShowChart(td)
    /\ ShowModal(sel, td)
    /\ UNCHANGED <<rangeVars, gridVars, intervalVars, tickVars, modalVars>>

PageInit ==
    /\ PageIdle /\ ModalIdle /\ ChartIdle /\ ArcIdle
    /\ RangeIdle /\ GridIdle /\ IntervalIdle /\ TickIdle

\* handleBegin, with its timer: the app layer replaces the landing screen
PageBegin ==
    /\ appState = "landing"
    /\ appState' = "input"
    /\ UNCHANGED <<timelineData, names, errorMessage, namesHidden, request,
                   lastResponse, exitingNames, removeTimers>>
    /\ ShowPage(timelineData, person)

\* handleAddName; the input is disabled while loading and covered by the modal
PageAddName ==
    /\ appState \in {"input", "error"}
    /\ person = NULL
    /\ \E n \in PendingNames : names' = AddName(names, n)
    /\ namesHidden' = FALSE
    /\ UNCHANGED <<timelineData, appState, errorMessage, request, lastResponse,
                   exitingNames, removeTimers>>
    /\ ShowPage(timelineData, person)

\* handleRemoveName; the list takes no clicks while hidden
PageRemoveName ==
    /\ appState # "landing"
    /\ person = NULL
    /\ ~namesHidden
    /\ \E i \in 1..Len(names) : names' = RemoveName(names, names[i])
    /\ UNCHANGED <<timelineData, appState, errorMessage, namesHidden, request,
                   lastResponse, exitingNames, removeTimers>>
    /\ ShowPage(timelineData, person)

\* handleGenerate up to the await of fetch.  The handler is taken for any list
\* of names; the button that calls it is disabled while the list is empty.
PageGenerate ==
    /\ appState \in {"input", "error"}
    /\ person = NULL
    /\ ~namesHidden
    /\ IF SendsRequest(names)
       THEN /\ namesHidden' = TRUE
            /\ appState' = "loading"
            /\ errorMessage' = NULL
            /\ request' = [names |-> names]
            /\ lastResponse' = "none"
       ELSE UNCHANGED <<namesHidden, appState, errorMessage, request, lastResponse>>
    /\ UNCHANGED <<timelineData, names, exitingNames, removeTimers>>
    /\ ShowPage(timelineData, person)

\* handleGenerate after the await: an OK response
PageReceiveOk ==
    /\ request # NULL
    /\ \E d \in Responses : timelineData' = MergeTimelineData(timelineData, d)
    /\ names' = <<>>
    /\ appState' = "input"
    /\ request' = NULL
    /\ lastResponse' = "ok"
    /\ UNCHANGED <<errorMessage, namesHidden, exitingNames, removeTimers>>
    /\ ShowPage(timelineData', person)

\* handleGenerate after the await: a response that is not OK
PageReceiveNotOk ==
    /\ request # NULL
    /\ \E err \in ResponseErrors : errorMessage' = ErrorOf(err)
    /\ appState' = "error"
    /\ request' = NULL
    /\ lastResponse' = "notok"
    /\ UNCHANGED <<timelineData, names, namesHidden, exitingNames, removeTimers>>
    /\ ShowPage(timelineData, person)

\* handleGenerate, the catch: fetch or res.json() threw
PageReceiveThrow ==
    /\ request # NULL
    /\ errorMessage' = <<"Network error. Check your connection and try again.">>
    /\ appState' = "error"
    /\ request' = NULL
    /\ lastResponse' = "throw"
    /\ UNCHANGED <<timelineData, names, namesHidden, exitingNames, removeTimers>>
    /\ ShowPage(timelineData, person)

\* the remove button of a bar: the bar starts its exit and a timer is set
PageRemoveClick ==
    /\ chart # NULL
    /\ person = NULL
    /\ Cardinality(removeTimers) < MaxTimers
    /\ \E k \in 1..Len(chart.given) :
          /\ exitingNames' = exitingNames \cup {chart.given[k].name}
          /\ removeTimers' = removeTimers \cup {chart.given[k].name}
    /\ UNCHANGED <<timelineData, names, appState, errorMessage, namesHidden,
                   request, lastResponse>>
    /\ ShowPage(timelineData, person)

\* the timer of a remove button: handleRemovePersonFromChart of the render of
\* the click, in which selectedPerson was null
PageRemoveTimer ==
    /\ \E n \in removeTimers :
          /\ timelineData' = RemovePersonFromChart(timelineData, n)
          /\ removeTimers' = removeTimers \ {n}
          /\ exitingNames' = IF timelineData' = NULL THEN {} ELSE exitingNames \ {n}
    /\ UNCHANGED <<names, appState, errorMessage, namesHidden, request, lastResponse>>
    /\ ShowPage(timelineData', person)

\* handleClearChart
PageClearChart ==
    /\ timelineData # NULL
    /\ person = NULL
    /\ timelineData' = NULL
    /\ names' = <<>>
    /\ exitingNames' = {}
    /\ UNCHANGED <<appState, errorMessage, namesHidden, request, lastResponse,
                   removeTimers>>
    /\ ShowPage(NULL, NULL)

\* onPersonClick: a bar that is not exiting is clicked
PageClickBar ==
    /\ chart # NULL
    /\ person = NULL
    /\ \E k \in 1..Len(chart.given) :
          /\ chart.given[k].name \notin exitingNames
          /\ ShowPage(timelineData, chart.given[k])
    /\ UNCHANGED pageVars

\* onClose of the modal
PageCloseModal ==
    /\ person # NULL
    /\ UNCHANGED pageVars
    /\ ShowPage(timelineData, NULL)

PageNext ==
    \/ PageBegin \/ PageAddName \/ PageRemoveName \/ PageGenerate
    \/ PageReceiveOk \/ PageReceiveNotOk \/ PageReceiveThrow
    \/ PageRemoveClick \/ PageRemoveTimer \/ PageClearChart
    \/ PageClickBar \/ PageCloseModal

SpecPage == PageInit /\ [][PageNext]_vars

----------------------------------------------------------------------------
(* PersonModal and lib/eventCache.  A timer or a response of a modal that   *)
(* was unmounted sets the state of a component that no longer exists, which *)
(* does nothing: the tab timers of a modal are dropped when it unmounts,    *)
(* the requests stay with cancelled = true.                                 *)

\* eventCache.has
CacheHas(cache, n) == cache[n] # NULL

\* eventCache.get(name) ?? []
CacheGetOrEmpty(cache, n) == IF cache[n] = NULL THEN <<>> ELSE cache[n][1]

\* eventCache.set
CacheSet(cache, n, events) == [cache EXCEPT ![n] = <<events>>]

\* Array.isArray(data.events) ? data.events : []
EventsOf(d) == IF d = NULL THEN <<>> ELSE d[1]

\* (mutation: the events are requested whatever the cache holds)
StartsFetch_Always(cache, n) == TRUE

\* the effect: if (eventCache.has(person.name)) return
StartsFetch(cache, n) == ~CacheHas(cache, n)

\* (mutation: a response is applied whether or not the effect was cleaned up)
AppliesResponse_Always(f) == TRUE

\* the then handler: if (cancelled) return
AppliesResponse(f) == ~f.cancelled

\* (mutation: a click during the lock is accepted)
TabClickIgnored_NoLock(tr, key, active) == key = active

\* handleTabClick: if (transitioning || key === activeViz) return
TabClickIgnored(tr, key, active) == tr \/ key = active

VIZ_TABS == {"clock", "compare", "years"}

\* the people a modal is opened for
ModalPeople == {Person("a", 1900, Year(1980), 1), Person("b", 1920, NULL, 2)}

\* data.events of a response of /api/events, as <<events>>, each event by its
\* year; NULL when it is not an array
EventResponses == {NULL, <<<<1914>>>>, <<<<1945>>>>}

ModalInit ==
    /\ ModalIdle /\ PageIdle /\ ChartIdle /\ ArcIdle
    /\ RangeIdle /\ GridIdle /\ IntervalIdle /\ TickIdle

\* everything but the modal, its person and the cache
ModalFrame ==
    UNCHANGED <<allData, arcs, arcPaths, rangeVars, gridVars, intervalVars,
                tickVars, chartVars, pageVars>>

\* PersonModal mounts for a person: the useState initial values, then the
\* effect that requests the events
ModalOpen ==
    /\ person = NULL
    /\ \E p \in ModalPeople :
          /\ person' = p
          /\ gridEvents' = CacheGetOrEmpty(eventCache, p.name)
          /\ IF StartsFetch(eventCache, p.name)
             THEN /\ eventsLoading' = TRUE
                  /\ fetches' = fetches \cup {[name |-> p.name, cancelled |-> FALSE]}
             ELSE /\ eventsLoading' = ~CacheHas(eventCache, p.name)
                  /\ UNCHANGED fetches
    /\ closing' = FALSE /\ activeViz' = "clock" /\ transitioning' = FALSE
    /\ tabTimers' = <<>>
    /\ UNCHANGED eventCache
    /\ ModalFrame

\* handleClose
ModalHandleClose ==
    /\ person # NULL
    /\ IF closing THEN UNCHANGED closing ELSE closing' = TRUE
    /\ UNCHANGED <<person, activeViz, transitioning, tabTimers, eventCache, fetches,
                   gridEvents, eventsLoading>>
    /\ ModalFrame

\* the timer of handleClose: onClose, the modal unmounts and the cleanup of
\* the effect sets cancelled
ModalCloseTimer ==
    /\ person # NULL
    /\ closing
    /\ person' = NULL
    /\ fetches' = {[name |-> f.name, cancelled |-> TRUE] : f \in fetches}
    /\ closing' = FALSE /\ activeViz' = "clock" /\ transitioning' = FALSE
    /\ tabTimers' = <<>>
    /\ gridEvents' = <<>> /\ eventsLoading' = FALSE
    /\ UNCHANGED eventCache
    /\ ModalFrame

\* handleTabClick
ModalTabClick ==
    /\ person # NULL
    /\ \E key \in VIZ_TABS :
          IF TabClickIgnored(transitioning, key, activeViz)
          THEN UNCHANGED <<transitioning, tabTimers>>
          ELSE /\ transitioning' = TRUE
               /\ tabTimers' = Append(tabTimers, key)
    /\ UNCHANGED <<person, closing, activeViz, eventCache, fetches, gridEvents,
                   eventsLoading>>
    /\ ModalFrame

\* the timer of handleTabClick, 220 ms after the click
ModalTabTimer ==
    /\ tabTimers # <<>>
    /\ activeViz' = Head(tabTimers)
    /\ transitioning' = FALSE
    /\ tabTimers' = Tail(tabTimers)
    /\ UNCHANGED <<person, closing, eventCache, fetches, gridEvents, eventsLoading>>
    /\ ModalFrame

\* the response of /api/events arrives: then and finally
ModalEventsResponse ==
    /\ \E f \in fetches, d \in EventResponses :
          /\ fetches' = fetches \ {f}
          /\ IF AppliesResponse(f)
             THEN /\ eventCache' = CacheSet(eventCache, f.name, EventsOf(d))
                  /\ gridEvents' = EventsOf(d)
                  /\ eventsLoading' = FALSE
             ELSE UNCHANGED <<eventCache, gridEvents, eventsLoading>>
    /\ UNCHANGED <<person, closing, activeViz, transitioning, tabTimers>>
    /\ ModalFrame

\* the request of /api/events fails: catch and finally
ModalEventsError ==
    /\ \E f \in fetches :
          /\ fetches' = fetches \ {f}
          /\ IF ~f.cancelled
             THEN gridEvents' = <<>> /\ eventsLoading' = FALSE
             ELSE UNCHANGED <<gridEvents, eventsLoading>>
    /\ UNCHANGED <<person, closing, activeViz, transitioning, tabTimers, eventCache>>
    /\ ModalFrame

ModalNext ==
    \/ ModalOpen \/ ModalHandleClose \/ ModalCloseTimer
    \/ ModalTabClick \/ ModalTabTimer
    \/ ModalEventsResponse \/ ModalEventsError

SpecModal == ModalInit /\ [][ModalNext]_vars

----------------------------------------------------------------------------
(* Claims about getYearRange, checked under SpecRange *)

\* the effective end of a record: death_year, or currentYear when it is null
EffectiveEnd(p) == Coalesce(p.death_year, currentYear)

\* C1: for a non-empty list and any reference year, the returned range has
\* minYear < maxYear, and every person's birth year and effective end year lie
\* within [minYear, maxYear].
C1_RangeContainsEveryLife ==
    yearRange # NULL =>
        /\ yearRange[1] < yearRange[2]
        /\ \A i \in 1..Len(data) :
              /\ yearRange[1] <= data[i].birth_year
              /\ data[i].birth_year <= yearRange[2]
              /\ yearRange[1] <= EffectiveEnd(data[i])
              /\ EffectiveEnd(data[i]) <= yearRange[2]

\* a range returned for several people, one of them living, one dead before
\* the earliest birth of the others, with a padding above the 5-year minimum
C1_Witness ==
    /\ yearRange # NULL
    /\ Len(data) >= 2
    /\ \E i \in 1..Len(data) : data[i].death_year = NULL
    /\ \E i \in 1..Len(data) :
          data[i].death_year # NULL /\ data[i].death_year[1] < data[i].birth_year
    /\ \E i \in 1..Len(data) : data[i].birth_year - yearRange[1] > 5

\* C2: the result is exactly (rawMin - pad, rawMax + pad): rawMin and rawMax
\* are the least and greatest pooled year, rawRange is their difference (100
\* when it is 0) and pad is the integer nearest to rawRange * 0.04, but at
\* least 5; coinciding years y give (y - 5, y + 5), and the two-person example
\* gives (1895, 2031).
C2_RangeIsPaddedExtremes ==
    yearRange # NULL =>
        \E lo, hi \in {data[i].birth_year : i \in 1..Len(data)} \cup
                      {EffectiveEnd(data[i]) : i \in 1..Len(data)} :
            /\ \A i \in 1..Len(data) :
                  /\ lo <= data[i].birth_year /\ lo <= EffectiveEnd(data[i])
                  /\ hi >= data[i].birth_year /\ hi >= EffectiveEnd(data[i])
            /\ LET rr  == IF hi = lo THEN 100 ELSE hi - lo
                   pad == lo - yearRange[1]
               IN  /\ yearRange[2] - hi = pad
                   /\ pad >= 5
                   \* pad > 5 only as the nearest integer to rr * 4 / 100
                   /\ pad > 5 => 100 * pad - 50 <= 4 * rr /\ 4 * rr < 100 * pad + 50
                   \* pad = 5 only when rr * 4 / 100 rounds to at most 5
                   /\ pad = 5 => 4 * rr < 550
                   /\ hi = lo => yearRange = <<lo - 5, lo + 5>>
            /\ (/\ currentYear = 2026
                /\ data = <<Person("p", 1900, Year(1955), "c"),
                            Person("p", 1920, NULL, "c")>>)
               => yearRange = <<1895, 2031>>

\* the two-person example of the specification has been computed
C2_Witness ==
    /\ currentYear = 2026
    /\ data = <<Person("p", 1900, Year(1955), "c"), Person("p", 1920, NULL, "c")>>
    /\ yearRange = <<1895, 2031>>

----------------------------------------------------------------------------
(* Claims about the YearGrid sizer, checked under SpecGrid *)

\* the number of cells of the grid shown
GridN == YearsLength(gridPerson)

\* n cells of the given size in c columns fit the width and the height
Fits(n, c, size, availW, availH) ==
    LET rows == MathCeilDiv(n, c)
    IN  /\ c * size + (c - 1) * GAP <= availW
        /\ rows * size + (rows - 1) * GAP <= availH

C4_ExampleIsOptimal ==
    (avail = <<400, 200>> /\ GridN = 50) =>
        /\ \E c \in 3..50 : Fits(50, c, squareSize, 400, 200)
        /\ \A c \in 3..50 : ~Fits(50, c, squareSize + 1, 400, 200)

----------------------------------------------------------------------------
(* Claims about the RadialAgeClock arc layout, checked under SpecArc *)

\* end = death_year ?? CURRENT_YEAR
ClaimEnd(p) == IF p.death_year = NULL THEN 2026 ELSE p.death_year[1]

\* min(O.end, P.end) > max(O.birth, P.birth)
ClaimOverlap(o, f) ==
    /\ o.birth_year < ClaimEnd(o) /\ o.birth_year < ClaimEnd(f)
    /\ f.birth_year < ClaimEnd(o) /\ f.birth_year < ClaimEnd(f)

\* shared = min(O.end, P.end) - max(O.birth, P.birth)
ClaimShared(o, f) ==
    (IF ClaimEnd(o) < ClaimEnd(f) THEN ClaimEnd(o) ELSE ClaimEnd(f))
    - (IF o.birth_year > f.birth_year THEN o.birth_year ELSE f.birth_year)

\* the positions in the chart of the other people that overlap the focal person
Contemporaries ==
    {i \in 1..Len(allData) :
        allData[i].name # person.name /\ ClaimOverlap(allData[i], person)}

\* the positions in the chart of the people that have an arc
Retained == {i \in 1..Len(allData) : \E k \in 1..Len(arcs) : arcs[k].p = allData[i]}

\* C5: only other people that overlap the focal person get an arc; with at most
\* 10 of them the arcs are exactly those people, one arc each; and the arc list
\* is empty exactly when nobody else overlaps the focal person.
C5_ArcsAreTheContemporaries ==
    person # NULL =>
        /\ \A k \in 1..Len(arcs) :
              /\ arcs[k].p.name # person.name
              /\ ClaimOverlap(arcs[k].p, person)
              /\ \E i \in 1..Len(allData) : allData[i] = arcs[k].p
        /\ Cardinality(Contemporaries) <= 10 =>
              /\ Retained = Contemporaries
              /\ Len(arcs) = Cardinality(Contemporaries)
        /\ (arcs = <<>>) <=> (Contemporaries = {})

\* a clock with arcs, drawn for a chart that also holds a person born the year
\* the focal person died and a person born after that
C5_Witness ==
    /\ person # NULL
    /\ Len(arcs) >= 2
    /\ Cardinality(Contemporaries) <= 10
    /\ \E i \in 1..Len(allData) :
          /\ allData[i].name # person.name
          /\ ClaimEnd(person) = allData[i].birth_year
    /\ \E i \in 1..Len(allData) :
          /\ allData[i].name # person.name
          /\ allData[i].birth_year > ClaimEnd(person)

\* C6: there are never more than 10 arcs, and every retained person shares at
\* least as many years with the focal person as every overlapping person that
\* was dropped.
C6_TopTenByShared ==
    person # NULL =>
        /\ Len(arcs) <= 10
        /\ \A i \in Retained : \A j \in Contemporaries \ Retained :
              ClaimShared(allData[i], person) >= ClaimShared(allData[j], person)

\* more than 10 people overlap the focal person, with three different numbers
\* of shared years among them, and someone was dropped
C6_Witness ==
    /\ person # NULL
    /\ Cardinality(Contemporaries) > 10
    /\ Len(arcs) = 10
    /\ Contemporaries \ Retained # {}
    /\ Cardinality({ClaimShared(allData[i], person) : i \in Contemporaries}) >= 3
    /\ Cardinality({ClaimShared(allData[i], person) : i \in Retained}) >= 2

\* C7: with N >= 2 arcs the radii are pairwise distinct, lie in [28, 106], start
\* at 28 and end at 106, and consecutive radii differ by exactly 78 / (N - 1),
\* whatever the age gaps are.
C7_RadiiEvenlySpaced ==
    Len(arcs) >= 2 =>
        LET N == Len(arcs)
        IN  /\ \A i, j \in 1..N : i # j => ~RatEq(arcs[i].r, arcs[j].r)
            /\ \A i \in 1..N :
                  RatLeq(Rat(28, 1), arcs[i].r) /\ RatLeq(arcs[i].r, Rat(106, 1))
            /\ RatEq(arcs[1].r, Rat(28, 1))
            /\ RatEq(arcs[N].r, Rat(106, 1))
            /\ \A i \in 1..(N - 1) :
                  RatEq(RatSub(arcs[i + 1].r, arcs[i].r), Rat(78, N - 1))

\* at least four arcs, two of them for people with the same age gap
C7_Witness ==
    /\ Len(arcs) >= 4
    /\ \E i, j \in 1..Len(arcs) : i # j /\ arcs[i].ageGap = arcs[j].ageGap
    /\ \E i, j \in 1..Len(arcs) : arcs[i].ageGap # arcs[j].ageGap

\* C8: the arc at 0-based index i of N has radius 28 + (i / (N - 1)) * 78 when
\* N > 1, and 67 when N = 1.
C8_RadiusOfIndex ==
    /\ Len(arcs) = 1 => RatEq(arcs[1].r, Rat(67, 1))
    /\ Len(arcs) > 1 =>
          \A k \in 1..Len(arcs) :
              arcs[k].r.num * (Len(arcs) - 1) =
                  (28 * (Len(arcs) - 1) + (k - 1) * 78) * arcs[k].r.den

\* exactly one contemporary: the midpoint branch
C8_Witness ==
    /\ person # NULL
    /\ Len(allData) >= 3
    /\ Len(arcs) = 1
    /\ RatEq(arcs[1].r, Rat(67, 1))

\* C9: the arcs are in ascending order of ageGap = P.birth_year - O.birth_year,
\* so a person born earlier than another never has the smaller radius of the
\* two.
C9_OlderIsOuter ==
    person # NULL =>
        /\ \A k \in 1..Len(arcs) : arcs[k].ageGap = person.birth_year - arcs[k].p.birth_year
        /\ \A i, j \in 1..Len(arcs) : i < j => arcs[i].ageGap <= arcs[j].ageGap
        /\ \A i, j \in 1..Len(arcs) :
              arcs[i].p.birth_year < arcs[j].p.birth_year
                  => ~RatLess(arcs[i].r, arcs[j].r)

\* arcs for people of three different birth years, where the innermost arc is
\* not the one with the most shared years
C9_Witness ==
    /\ person # NULL
    /\ Len(arcs) >= 3
    /\ Cardinality({arcs[k].p.birth_year : k \in 1..Len(arcs)}) >= 3
    /\ \E k \in 2..Len(arcs) : arcs[k].overlapYears > arcs[1].overlapYears

\* C10: every arc has 0 < endDeg - startDeg <= 360, startDeg >= 0 and
\* endDeg <= 360, and the end angle drawn is at most startDeg + 359.9.
C10_ArcAnglesBounded ==
    /\ Len(arcPaths) = Len(arcs)
    /\ \A k \in 1..Len(arcs) :
          /\ RatLess(arcs[k].startDeg, arcs[k].endDeg)
          /\ RatLeq(RatSub(arcs[k].endDeg, arcs[k].startDeg), Rat(360, 1))
          /\ RatLeq(Rat(0, 1), arcs[k].startDeg)
          /\ RatLeq(arcs[k].endDeg, Rat(360, 1))
          /\ arcPaths[k].start = arcs[k].startDeg
          /\ 10 * arcPaths[k].end.num * arcs[k].startDeg.den
                <= (10 * arcs[k].startDeg.num + 3599 * arcs[k].startDeg.den)
                       * arcPaths[k].end.den

\* an arc over the whole focal life (360 degrees), drawn short of the full
\* circle, beside an arc over a part of it
C10_Witness ==
    /\ \E k \in 1..Len(arcs) :
          /\ RatEq(arcs[k].startDeg, Rat(0, 1))
          /\ RatEq(arcs[k].endDeg, Rat(360, 1))
          /\ RatLess(arcPaths[k].end, arcs[k].endDeg)
    /\ \E k \in 1..Len(arcs) :
          /\ RatLess(Rat(0, 1), arcs[k].startDeg)
          /\ RatLess(arcs[k].endDeg, Rat(360, 1))

\* C11: each arc's angles are startDeg = (max(O.birth, P.birth) - P.birth) /
\* lifespan * 360 and endDeg = (min(O.end, P.end) - P.birth) / lifespan * 360
\* with lifespan = max(P.end - P.birth, 1); for the focal life 1900-1980 and a
\* contemporary 1850-1920 they are 0 and 90.
C11_ArcAngles ==
    person # NULL =>
        LET span     == ClaimEnd(person) - person.birth_year
            lifespan == IF span > 1 THEN span ELSE 1
        IN  \A k \in 1..Len(arcs) :
                LET o    == arcs[k].p
                    from == IF o.birth_year > person.birth_year
                            THEN o.birth_year ELSE person.birth_year
                    to   == IF ClaimEnd(o) < ClaimEnd(person)
                            THEN ClaimEnd(o) ELSE ClaimEnd(person)
                IN  /\ arcs[k].startDeg.num * lifespan
                          = (from - person.birth_year) * 360 * arcs[k].startDeg.den
                    /\ arcs[k].endDeg.num * lifespan
                          = (to - person.birth_year) * 360 * arcs[k].endDeg.den
                    /\ (/\ person.birth_year = 1900 /\ person.death_year = Year(1980)
                        /\ o.birth_year = 1850 /\ o.death_year = Year(1920))
                       => /\ RatEq(arcs[k].startDeg, Rat(0, 1))
                          /\ RatEq(arcs[k].endDeg, Rat(90, 1))

\* the clock of the 1900-1980 person with an arc from 0 to 90 degrees for a
\* 1850-1920 contemporary, beside an arc of a person born during the focal life
C11_Witness ==
    /\ person # NULL
    /\ person.birth_year = 1900 /\ person.death_year = Year(1980)
    /\ \E k \in 1..Len(arcs) :
          /\ arcs[k].p.birth_year = 1850 /\ arcs[k].p.death_year = Year(1920)
          /\ RatEq(arcs[k].startDeg, Rat(0, 1))
          /\ RatEq(arcs[k].endDeg, Rat(90, 1))
    /\ \E k \in 1..Len(arcs) : RatLess(Rat(0, 1), arcs[k].startDeg)

\* C12: the overlap predicate is symmetric: A passes the overlap filter when B
\* is focal if and only if B passes it when A is focal; whether the clock shown
\* keeps another person is therefore decided by the predicate with the two
\* people swapped.
C12_OverlapSymmetric ==
    /\ \A i, j \in 1..Len(allData) :
          OverlapsFocal(allData[i], allData[j]) <=> OverlapsFocal(allData[j], allData[i])
    /\ person # NULL =>
          \A i \in 1..Len(allData) :
              allData[i].name # person.name =>
                  /\ i \in Retained => OverlapsFocal(allData[i], person)
                  /\ (Len(arcs) < 10 /\ OverlapsFocal(allData[i], person))
                        => i \in Retained

\* a clock whose focal person ends the year another person of the chart is
\* born, shown with an arc for a living person and with a person whose
\* death_year precedes the birth_year in the chart
C12_Witness ==
    /\ person # NULL
    /\ \E i \in 1..Len(allData) :
          /\ allData[i].name # person.name
          /\ allData[i].birth_year = ClaimEnd(person)
          /\ i \notin Retained
    /\ \E k \in 1..Len(arcs) : arcs[k].p.death_year = NULL
    /\ \E i \in 1..Len(allData) :
          allData[i].death_year # NULL /\ allData[i].death_year[1] < allData[i].birth_year

----------------------------------------------------------------------------
(* Claims about the tick planner, checked under SpecTicks and SpecInterval *)

\* the multiples of step in [lo, hi]
MultiplesIn(lo, hi, step) == {y \in lo..hi : y % step = 0}

\* C13: getTicks returns, ascending and spaced exactly interval apart,
\* precisely the multiples of interval in [minYear, maxYear], also for negative
\* years: the first is ceil(minYear / interval) * interval, i.e. the least
\* multiple not below minYear, and the list is empty when no multiple falls in
\* the range.
C13_TicksAreTheMultiples ==
    ticks # NULL =>
        LET t == ticks[1]
            M == MultiplesIn(minYear, maxYear, interval)
        IN  /\ {t[k] : k \in 1..Len(t)} = M
            /\ Len(t) = Cardinality(M)
            /\ \A k \in 1..(Len(t) - 1) : t[k + 1] = t[k] + interval
            /\ Len(t) > 0 =>
                  /\ t[1] >= minYear /\ t[1] - interval < minYear
                  /\ t[1] % interval = 0
                  /\ t[Len(t)] <= maxYear /\ t[Len(t)] + interval > maxYear
            /\ (M = {}) <=> (t = <<>>)

\* ticks on both sides of year 0, counted from a negative minYear that is not
\* itself a multiple of the interval
C13_Witness ==
    /\ ticks # NULL
    /\ minYear < 0 /\ minYear % interval # 0
    /\ Len(ticks[1]) >= 3
    /\ ticks[1][1] < 0
    /\ ticks[1][Len(ticks[1])] > 0

\* C14: getTickInterval returns 1000 above 4000, else 500 above 2000, else 200
\* above 800, else 100 above 300, else 50 above 120, else 25 above 50, else 10;
\* a span of 136 gives 50 and each threshold itself gives the smaller interval.
C14_IntervalLadder ==
    tickInterval # NULL =>
        LET v == tickInterval[1]
        IN  /\ v \in {10, 25, 50, 100, 200, 500, 1000}
            /\ (v = 1000) <=> (tickRange > 4000)
            /\ (v = 500) <=> (tickRange > 2000 /\ tickRange <= 4000)
            /\ (v = 200) <=> (tickRange > 800 /\ tickRange <= 2000)
            /\ (v = 100) <=> (tickRange > 300 /\ tickRange <= 800)
            /\ (v = 50) <=> (tickRange > 120 /\ tickRange <= 300)
            /\ (v = 25) <=> (tickRange > 50 /\ tickRange <= 120)
            /\ (v = 10) <=> (tickRange <= 50)
            /\ tickRange = 136 => v = 50
            /\ tickRange = 4000 => v = 500
            /\ tickRange = 2000 => v = 200
            /\ tickRange = 800 => v = 100
            /\ tickRange = 300 => v = 50
            /\ tickRange = 120 => v = 25
            /\ tickRange = 50 => v = 10

\* the interval of a threshold value has been returned
C14_Witness ==
    /\ tickInterval # NULL
    /\ tickRange = 4000
    /\ tickInterval = <<500>>

----------------------------------------------------------------------------
(* Claims about the row layout of TimelineChart, checked under SpecChart *)

\* the position in the list given of the person of row k (names are unique)
GivenIndex(k) ==
    CHOOSE i \in 1..Len(chart.given) : chart.given[i] = chart.rows[k].person

C16_RowsEvery32Px ==
    chart # NULL =>
        /\ \A k \in 1..Len(chart.rows) :
              chart.rows[k].barY.num * chart.topOffset.den
                 = (chart.topOffset.num + 32 * (k - 1) * chart.topOffset.den)
                       * chart.rows[k].barY.den
        /\ \A k \in 1..(Len(chart.rows) - 1) :
              RatEq(RatSub(chart.rows[k + 1].barY, chart.rows[k].barY), Rat(32, 1))
        /\ \A k, l \in 1..Len(chart.rows) :
              k # l => ~RatEq(chart.rows[k].barY, chart.rows[l].barY)

\* three or more rows below an origin that is not a whole number of pixels
C16_Witness ==
    /\ chart # NULL
    /\ Len(chart.rows) >= 3
    /\ chart.topOffset.num % chart.topOffset.den # 0
    /\ RatEq(RatSub(chart.rows[3].barY, chart.rows[1].barY), Rat(64, 1))

\* C17: computeContentHeight for n people is n * (BAR_H + BAR_GAP) - BAR_GAP +
\* PAD_BOTTOM = 32 n + 46, so the axis line y = topOffset + contentH -
\* PAD_BOTTOM is the bottom edge (barY + BAR_H) of the last row's bar and every
\* bar lies on or above the axis.
C17_AxisUnderLastBar ==
    chart # NULL =>
        LET n == Len(chart.given)
        IN  /\ chart.contentH = 32 * n + 46
            /\ chart.contentH = n * (18 + 14) - 14 + 60
            /\ RatEq(chart.axisY, RatAdd(chart.rows[n].barY, Rat(18, 1)))
            /\ \A k \in 1..n :
                  RatLeq(RatAdd(chart.rows[k].barY, Rat(18, 1)), chart.axisY)

\* several rows, pushed down by a tall element: the axis is under the last bar
C17_Witness ==
    /\ chart # NULL
    /\ Len(chart.rows) >= 2
    /\ RatLess(Rat(120, 1), chart.topOffset)
    /\ RatEq(chart.axisY, RatAdd(chart.rows[Len(chart.rows)].barY, Rat(18, 1)))

\* the position in list d of the first person of category c
FirstAppearance(d, c) == CHOOSE i \in 1..Len(d) :
    d[i].category = c /\ \A j \in 1..(i - 1) : d[j].category # c

\* the 0-based rank of category c among the categories of d by first appearance
AppearanceRank(d, c) ==
    Cardinality({d[j].category : j \in 1..(FirstAppearance(d, c) - 1)})

\* the palette of the specification
Palette ==
    << "#7a6e5f", "#5f6e6a", "#6e5f7a", "#7a6a5f",
       "#5f7a6e", "#6a6e5f", "#7a5f6a", "#5f6a7a" >>

\* the categories of list d
CategoriesOf(d) == {d[i].category : i \in 1..Len(d)}

\* C18: each distinct category gets the palette entry at index k mod 8, k the
\* 0-based rank of the category's first appearance in input order (not birth
\* order); every row has the color of its category, so with at most 8
\* categories distinct categories get distinct colors, and the 9th distinct
\* category gets the color of the 1st.
C18_ColorByFirstAppearance ==
    chart # NULL =>
        /\ \A k \in 1..Len(chart.rows) :
              chart.rows[k].color =
                  Palette[(AppearanceRank(chart.given, chart.rows[k].person.category) % 8) + 1]
        /\ Cardinality(CategoriesOf(chart.given)) <= 8 =>
              \A k, l \in 1..Len(chart.rows) :
                  chart.rows[k].person.category # chart.rows[l].person.category
                      => chart.rows[k].color # chart.rows[l].color
        /\ \A k, l \in 1..Len(chart.rows) :
              (/\ AppearanceRank(chart.given, chart.rows[k].person.category) = 8
               /\ AppearanceRank(chart.given, chart.rows[l].person.category) = 0)
              => chart.rows[k].color = chart.rows[l].color

\* nine categories on the chart, the first of them not the earliest born
C18_Witness ==
    /\ chart # NULL
    /\ Cardinality(CategoriesOf(chart.given)) = 9
    /\ chart.rows[1].person.category # chart.given[1].category
    /\ \E k, l \in 1..Len(chart.rows) :
          /\ chart.rows[k].person.category # chart.rows[l].person.category
          /\ chart.rows[k].color = chart.rows[l].color
          /\ chart.rows[l].person = chart.given[1]

\* the mapping a fresh program computes for list d
FreshMapping(d) ==
    [c \in CategoriesOf(d) |-> Palette[(AppearanceRank(d, c) % 8) + 1]]

\* C19: the category-to-color mapping depends only on the list of the current
\* call: after any sequence of earlier layout calls with other lists, laying
\* out list L leaves the mapping a fresh program computes for L (no color
\* state survives between calls).
C19_NoColorStateSurvives ==
    chart # NULL =>
        /\ DOMAIN lastColors.left.map = CategoriesOf(chartData)
        /\ \A c \in CategoriesOf(chartData) :
              lastColors.left.map[c] = FreshMapping(chartData)[c]
        /\ lastColors.left.ci = Cardinality(CategoriesOf(chartData))

\* a list has been laid out after a call that had left a category the list
\* does not have and another color for the list's first category
C19_Witness ==
    /\ chart # NULL
    /\ lastColors.found # NULL
    /\ \E c \in DOMAIN lastColors.found.map : c \notin CategoriesOf(chartData)
    /\ \E c \in DOMAIN lastColors.found.map \cap CategoriesOf(chartData) :
          lastColors.found.map[c] # lastColors.left.map[c]

\* C20: xs is only evaluated with maxYear - minYear >= 10; it sends minYear to
\* PAD_LEFT and maxYear to PAD_LEFT + chartW, is non-decreasing in year, and
\* maps every person's birth year and effective end year (and every tick) into
\* [PAD_LEFT, PAD_LEFT + chartW].
C20_XsWithinChart ==
    chart # NULL =>
        LET lo == chart.minYear
            hi == chart.maxYear
            W  == chart.chartW
        IN  /\ hi - lo >= 10
            /\ RatEq(xs(lo, hi, W, lo), Rat(48, 1))
            /\ RatEq(xs(lo, hi, W, hi), Rat(48 + W, 1))
            /\ \A y \in lo..(hi - 1) : RatLeq(xs(lo, hi, W, y), xs(lo, hi, W, y + 1))
            /\ \A k \in 1..Len(chart.bars) :
                  LET p == chart.rows[k].person
                      e == IF p.death_year = NULL THEN 2026 ELSE p.death_year[1]
                  IN  /\ chart.bars[k].bx.num * (hi - lo)
                            = (48 * (hi - lo) + (p.birth_year - lo) * W) * chart.bars[k].bx.den
                      /\ chart.bars[k].solidEndX.num * (hi - lo)
                            = (48 * (hi - lo) + (e - lo) * W) * chart.bars[k].solidEndX.den
                      /\ RatLeq(Rat(48, 1), chart.bars[k].bx)
                      /\ RatLeq(chart.bars[k].bx, Rat(48 + W, 1))
                      /\ RatLeq(Rat(48, 1), chart.bars[k].solidEndX)
                      /\ RatLeq(chart.bars[k].solidEndX, Rat(48 + W, 1))
            /\ \A k \in 1..Len(chart.gridX) :
                  /\ RatLeq(Rat(48, 1), chart.gridX[k])
                  /\ RatLeq(chart.gridX[k], Rat(48 + W, 1))

\* the chart of one person born and dead the same year is drawn: the range is
\* 10 years wide and the bar starts strictly inside the chart
C20_Witness ==
    /\ chart # NULL
    /\ chart.maxYear - chart.minYear = 10
    /\ chart.chartW > 0
    /\ Len(chart.bars) = 1
    /\ RatLess(Rat(48, 1), chart.bars[1].bx)
    /\ RatLess(chart.bars[1].bx, Rat(48 + chart.chartW, 1))

----------------------------------------------------------------------------
(* Further claims about the RadialAgeClock arc layout, checked under SpecArc *)

\* C21: each arc's flags are bornDuring = (O.birth_year > P.birth_year) and
\* diedDuring = (O.death_year is not null and O.death_year < P.end), with
\* ageGap = P.birth_year - O.birth_year and overlapYears = min(O.end, P.end) -
\* max(O.birth, P.birth).
C21_ArcFlags ==
    person # NULL =>
        \A k \in 1..Len(arcs) :
            LET o == arcs[k].p
            IN  /\ arcs[k].bornDuring <=> (o.birth_year > person.birth_year)
                /\ arcs[k].diedDuring <=>
                      (o.death_year # NULL /\ o.death_year[1] < ClaimEnd(person))
                /\ arcs[k].ageGap = person.birth_year - o.birth_year
                /\ arcs[k].overlapYears = ClaimShared(o, person)

\* a clock with an arc of a person born before and dead during the focal life,
\* an arc of a living person born during it, and an arc of a person who died
\* the year the focal life ended
C21_Witness ==
    /\ person # NULL
    /\ \E k \in 1..Len(arcs) : ~arcs[k].bornDuring /\ arcs[k].diedDuring
    /\ \E k \in 1..Len(arcs) :
          arcs[k].bornDuring /\ ~arcs[k].diedDuring /\ arcs[k].p.death_year = NULL
    /\ \E k \in 1..Len(arcs) :
          /\ arcs[k].p.death_year = Year(ClaimEnd(person))
          /\ ~arcs[k].diedDuring

----------------------------------------------------------------------------
(* Further claims about the YearGrid sizer, checked under SpecGrid *)

\* the size of a scan over every column count 3..n with no early exit,
\* clamped to [12, 56]
FullScanSize(n, availW, availH) ==
    LET best == SetMax({12} \cup {CandidateSize(n, c, availW, availH) : c \in 3..n})
    IN  MathMax(12, MathMin(best, 56))

\* C24: the early exit of the scan is only a shortcut: for every n, W and H the
\* size set equals the size of a full scan over the column counts 3..n
\* followed by the same clamp.
C24_EarlyExitEqualsFullScan ==
    avail # NULL => squareSize = FullScanSize(GridN, avail[1], avail[2])

\* C25: the square size the sizer sets is always an integer in [12, 56], for
\* every cell count (n < 3, where no column count is scanned, included) and
\* every positive available width and height.
C25_SizeWithinClamp ==
    /\ squareSize \in 12..56
    /\ (avail # NULL /\ GridN < 3) => squareSize = 12

\* the sizer has run for a grid of fewer than 3 cells in a wide area
C25_Witness ==
    /\ avail # NULL
    /\ GridN \in 1..2
    /\ avail[1] >= 200
    /\ squareSize = 12

----------------------------------------------------------------------------
(* Claims about the axis of a chart, checked under SpecAxis *)

\* C30: for every non-empty list, the ticks planned on the range of
\* getYearRange with the interval of getTickInterval(maxYear - minYear) are at
\* least one, and at most 11 whenever the padded span is at most 4000 years.
C30_TickCount ==
    (yearRange # NULL /\ ticks # NULL) =>
        /\ Len(ticks[1]) >= 1
        /\ yearRange[2] - yearRange[1] <= 4000 => Len(ticks[1]) <= 11

\* 11 ticks on a padded span of 2000 years that starts on a tick
C30_Witness ==
    /\ yearRange # NULL /\ ticks # NULL
    /\ yearRange[2] - yearRange[1] = 2000
    /\ Len(ticks[1]) = 11

----------------------------------------------------------------------------
(* Claims about the page, checked under SpecPage *)

\* C23: through generate, remove-person and clear-chart, timelineData is
\* null or a non-empty list, and the chart (getYearRange, buildFlatLayout) is
\* never computed for an empty roster; removing the last person leaves null.
C23_RosterNeverEmpty ==
    /\ timelineData = NULL \/ Len(timelineData[1]) >= 1
    /\ chart # NULL => Len(chart.given) >= 1

\* the last person was removed by a timer while the modal was open: the
\* clear button is covered by the modal, so only a removal leads here
C23_Witness == timelineData = NULL /\ person # NULL

\* C22: a record with death_year < birth_year never produces negative
\* geometry: the width of its bar on the chart is at least 2 px, and no arc
\* entry of the clock, with such a person as focal or as other, has a zero or
\* negative angular span or negative overlapYears.
C22_NoNegativeGeometry ==
    /\ chart # NULL =>
          \A k \in 1..Len(chart.bars) : RatLeq(Rat(2, 1), chart.bars[k].barW)
    /\ \A k \in 1..Len(arcs) :
          /\ RatLess(arcs[k].startDeg, arcs[k].endDeg)
          /\ arcs[k].overlapYears >= 0

\* the clock of "a" is open over a chart that holds "b", who died before the
\* birth: the bar of "b" is 2 px wide and the arcs drawn leave "b" out
C22_Witness ==
    /\ chart # NULL /\ person # NULL /\ person.name = "a"
    /\ \E k \in 1..Len(allData) :
          /\ allData[k].name = "b"
          /\ allData[k].death_year[1] < allData[k].birth_year
    /\ Len(arcs) >= 1
    /\ \A k \in 1..Len(arcs) : arcs[k].p.name # "b"
    /\ \E k \in 1..Len(chart.bars) :
          /\ chart.rows[k].person.name = "b"
          /\ RatEq(chart.bars[k].barW, Rat(2, 1))

RECURSIVE NotInOld(_, _, _)
\* the people of d from position i on whose name no entry of old has, in the
\* order of d
NotInOld(old, d, i) ==
    IF i > Len(d)
    THEN <<>>
    ELSE (IF \E k \in 1..Len(old) : old[k].name = d[i].name THEN <<>> ELSE <<d[i]>>)
            \o NotInOld(old, d, i + 1)

\* the names of the list are pairwise distinct
DistinctNames(l) == \A i, j \in 1..Len(l) : i # j => l[i].name # l[j].name

C27_FailureKeepsData ==
    /\ [](request # NULL => Len(request.names) >= 1)
    /\ []((appState = "error") => errorMessage # NULL)
    /\ [][(request # NULL /\ request' = NULL /\ lastResponse' \in {"notok", "throw"}) =>
            /\ appState' = "error"
            /\ errorMessage' # NULL
            /\ timelineData' = timelineData
            /\ names' = names]_vars
    /\ [][(request = NULL /\ request' # NULL) =>
            /\ Len(names) >= 1
            /\ request'.names = names]_vars
    /\ [][(Len(names) = 0 /\ request = NULL) => request' = NULL]_vars

\* a generate failed while a chart was shown and names were pending
C27_Witness ==
    /\ appState = "error" /\ errorMessage # NULL
    /\ lastResponse \in {"notok", "throw"}
    /\ timelineData # NULL
    /\ Len(names) >= 1

----------------------------------------------------------------------------
(* Claims about PersonModal and the event cache, checked under SpecModal *)

\* C28: a tab click is ignored while transitioning is true or when the tab
\* clicked is the active one; an accepted click sets transitioning and leaves
\* activeViz; activeViz changes only when the lock of that click expires,
\* becoming the tab clicked, with transitioning false again.  Of two quick
\* clicks on different tabs the first one wins.
C28_TabLock ==
    /\ [](person # NULL =>
            /\ Len(tabTimers) <= 1
            /\ transitioning <=> Len(tabTimers) = 1
            /\ \A k \in 1..Len(tabTimers) : tabTimers[k] # activeViz)
    /\ [][(person # NULL /\ person' # NULL /\ transitioning) =>
            \/ UNCHANGED <<activeViz, transitioning, tabTimers>>
            \/ /\ activeViz' = tabTimers[1]
               /\ transitioning' = FALSE
               /\ tabTimers' = <<>>]_vars
    /\ [][(person # NULL /\ person' # NULL /\ ~transitioning) =>
            /\ activeViz' = activeViz
            /\ \/ UNCHANGED <<transitioning, tabTimers>>
               \/ /\ transitioning' = TRUE
                  /\ Len(tabTimers') = 1
                  /\ tabTimers'[1] \in VIZ_TABS \ {activeViz}]_vars

\* one switch was completed and the lock of a second one is pending
C28_Witness ==
    /\ person # NULL
    /\ activeViz = "compare"
    /\ transitioning
    /\ tabTimers = <<"years">>

\* C29: the events are requested only when the cache has no entry for the
\* name; a response that arrives after the modal was closed (cancelled) is
\* neither written to the cache nor applied to the state; an entry of the
\* cache, once set, is never overwritten.
C29_CacheWrittenOnce ==
    /\ [](\A f \in fetches :
            ~f.cancelled =>
                /\ person # NULL /\ f.name = person.name
                /\ eventCache[f.name] = NULL)
    /\ [][\A f \in fetches' \ fetches :
            ~f.cancelled => eventCache[f.name] = NULL]_vars
    /\ [][\A n \in DOMAIN eventCache :
            eventCache[n] # NULL => eventCache'[n] = eventCache[n]]_vars
    /\ [][(eventCache' # eventCache \/ (person' = person /\ gridEvents' # gridEvents)) =>
            \E f \in fetches \ fetches' :
                /\ ~f.cancelled
                /\ \A n \in DOMAIN eventCache : n # f.name => eventCache'[n] = eventCache[n]]_vars

\* the request of a modal that was closed is still awaited while the cache
\* holds the entry that the request of a later modal set
C29_Witness ==
    \E f \in fetches : f.cancelled /\ eventCache[f.name] # NULL

====
